---- MODULE Spec2Model ----
(***************************************************************************)
(* textimgbot.py: the Telegram text image render bot.  The update poller,  *)
(* the message queue, the dispatch loop with the two-stage render pipeline *)
(* and its file cache, and the reply tasks of the executor.                *)
(* A Python str is a sequence of one-character strings.                    *)
(***************************************************************************)
EXTENDS Integers, Sequences, FiniteSets, TLC

\* ---------------------------------------------------------------- bounds
\* Updates the upstream creates in one run.
MaxUpdates == 2
\* Longest template name and longest request text of the key check.
MaxKeyLen == 2
\* Most whitespace characters put before and after a reply text.
MaxPad == 1
\* Updates on the queue when the dispatch loop is followed alone.
MaxQueue == 2

\* ------------------------------------------------------ program constants
\* bot_api: for att in range(3)
Attempts == 3
\* bot_api: if att < 1: time.sleep(...)
BackoffBelow == 1
\* sendmsg: if len(text) > 2000
MaxText == 2000
\* sendmsg: text[:1999]
KeepText == 1999
\* executor = ThreadPoolExecutor(5)
Workers == 5
\* proc.kill(): the return code of a child ended by SIGKILL
Killed == -9

\* ---------------------------------------------------------------- strings
\* The characters of template names and request texts, for hashstr.
Alphabet == <<"a", "b", "/", "|", " ", "t", "u">>

Ord(c) == CHOOSE i \in 1..Len(Alphabet) : Alphabet[i] = c

Base == Len(Alphabet) + 1

\* str.join of two strings around a separator: '%s|%s' % (template, text)
KeyString(template, s) == template \o <<"|">> \o s

\* The digest of a string, read as a number: distinct strings have distinct
\* digests (sha256 taken as injective), and the digest is no copy of the string.
RECURSIVE Digest(_)
Digest(s) ==
    IF s = <<>> THEN 0
    ELSE Digest(SubSeq(s, 1, Len(s) - 1)) * Base + Ord(s[Len(s)])

hashstr(s) == Digest(s)

\* fileid = hashstr('%s|%s' % (template, text))
FileId(template, s) == hashstr(KeyString(template, s))

Nbsp == "_"

\* The characters str.strip() removes.
IsSpace(c) == c \in {" ", Nbsp}

\* str.strip()
RECURSIVE LStrip(_)
LStrip(s) ==
    IF s # <<>> /\ IsSpace(s[1]) THEN LStrip(Tail(s)) ELSE s

RECURSIVE RStrip(_)
RStrip(s) ==
    IF s # <<>> /\ IsSpace(s[Len(s)]) THEN RStrip(SubSeq(s, 1, Len(s) - 1)) ELSE s

Strip(s) == RStrip(LStrip(s))

\* str.split(sep): the pieces between the separators, always at least one.
RECURSIVE Split(_, _)
Split(s, sep) ==
    IF \A i \in 1..Len(s) : s[i] # sep THEN <<s>>
    ELSE LET k == CHOOSE i \in 1..Len(s) :
                      s[i] = sep /\ \A j \in 1..(i - 1) : s[j] # sep
         IN  <<SubSeq(s, 1, k - 1)>> \o Split(SubSeq(s, k + 1, Len(s)), sep)

\* args = [text] + text.split('/')
Args(s) == <<s>> \o Split(s, "/")

\* ------------------------------------------------------------- templates
\* A template document is a sequence of tokens: a literal character
\* (field = -1) or a replacement field {n} of str.format.
Lit(c) == [field |-> -1, lit |-> c]
Field(n) == [field |-> n, lit |-> ""]

\* The .svg files of CFG['templates']: t holds "{0}-{1}" and u holds "{2}".
TemplateNames == {<<"t">>, <<"u">>}

TemplateFile(name) ==
    IF name = <<"t">> THEN <<Field(0), Lit("-"), Field(1)>> ELSE <<Field(2)>>

\* str.format(*args) raises IndexError for a field with no argument.
FormatRaises(doc, a) == \E i \in 1..Len(doc) : doc[i].field >= Len(a)

RECURSIVE Format(_, _)
Format(doc, a) ==
    IF doc = <<>> THEN <<>>
    ELSE (IF doc[1].field < 0 THEN <<doc[1].lit>> ELSE a[doc[1].field + 1])
         \o Format(Tail(doc), a)

\* update_templates: the registry holds every template of the directory, in
\* the order os.listdir gives them, which is any.
Registries ==
    {r \in [1..Cardinality(TemplateNames) -> TemplateNames] :
        \A i, j \in 1..Len(r) : i # j => r[i] # r[j]}

\* ---------------------------------------------------------------- updates
Queries == {<<"a">>, <<"a", "/", "b">>, <<" ">>}

START == <<"S", "t", "a", "r", "t">>
HELP == <<"H", "e", "l", "p">>
NotImplemented == <<"N", "o", "t">>

MsgTexts == {<<"/", "s", "t", "a", "r", "t">>, <<"/", "d", "e", "l", "s", "v", "g">>,
             <<"h", "i">>, <<>>,
             <<"/", "s", "t", "a", "r", "t", "@", "b", "o", "t">>,
             <<"/", "s", "t", "a", "r", "t", "@", "x">>,
             <<" ", "/", "s", "t", "a", "r", "t", " ", "a">>,
             <<"/", "h", "e", "l", "p">>, <<"s", "t", "a", "r", "t">>, <<" ">>}

\* An update of the Bot API, less its update_id.  hasquery is whether the
\* inline_query object holds 'query'; text is query['query'] or
\* message.get('text', ''); document is whether the message holds one.
InlinePayloads ==
    {[kind |-> "inline_query", hasquery |-> TRUE, text |-> q,
      document |-> FALSE, chat |-> "private"] : q \in Queries}
    \cup {[kind |-> "inline_query", hasquery |-> FALSE, text |-> <<>>,
           document |-> FALSE, chat |-> "private"]}

MessagePayloads ==
    {[kind |-> "message", hasquery |-> FALSE, text |-> m,
      document |-> FALSE, chat |-> c] : m \in MsgTexts, c \in {"private", "group"}}
    \cup {[kind |-> "message", hasquery |-> FALSE, text |-> <<>>,
           document |-> TRUE, chat |-> c] : c \in {"private", "group"}}

\* The updates of a run: the inline queries, a message that is answered and
\* one that is not.
Payloads ==
    InlinePayloads
    \cup {p \in MessagePayloads :
             \/ p.text = <<"h", "i">> /\ p.chat = "private"
             \/ p.document /\ p.chat = "group"}

Update(id, p) ==
    [update_id |-> id, kind |-> p.kind, hasquery |-> p.hasquery, text |-> p.text,
     document |-> p.document, chat |-> p.chat]

\* ---------------------------------------------------------------- bot_api
\* One call of bot_api: the attempt it is at, the POSTs made, the attempts it
\* slept after, and how it ended.
ApiStart == [pc |-> "post", att |-> 0, tries |-> 0, slept |-> <<>>, exc |-> "none"]

\* What one POST can give: JSON with ok true, JSON with ok false, an empty
\* body, or an exception (network error, timeout, undecodable body).
Responses == {"ok", "notok", "empty", "exc"}

\* POST number att gave response r: the for loop's body and, when the loop ends
\* here, the lines after it.
ApiPost(c, r) ==
    LET n == [c EXCEPT !.tries = c.tries + 1] IN
    CASE r = "ok" -> [n EXCEPT !.pc = "returned"]
      [] r = "notok" -> [n EXCEPT !.pc = "raised", !.exc = "BotAPIFailed"]
      [] r = "empty" ->
            IF c.att + 1 < Attempts
            THEN [n EXCEPT !.att = c.att + 1]
            ELSE [n EXCEPT !.pc = "raised", !.exc = "UnboundLocalError"]
      [] OTHER ->
            IF c.att < BackoffBelow
            THEN [n EXCEPT !.pc = "backoff"]
            ELSE [n EXCEPT !.pc = "raised", !.exc = "network"]

\* time.sleep((att + 1) * 2) is over: the next attempt.
ApiWake(c) == [c EXCEPT !.pc = "post", !.att = c.att + 1, !.slept = Append(c.slept, c.att)]

\* The calls one step of bot_api can lead to.
ApiNext(c) ==
    IF c.pc = "post" THEN {ApiPost(c, r) : r \in Responses}
    ELSE IF c.pc = "backoff" THEN {ApiWake(c)}
    ELSE {}

\* -------------------------------------------------------------- parse_cmd
\* CFG.username of config.json.
CFGUsername == <<"b", "o", "t">>

\* parse_cmd gives (None, None) for a text that is no command; a command is
\* never the empty string, which stands for None here.
NoCmd == <<>>

Replace(s, x, y) == [i \in 1..Len(s) |-> IF s[i] = x THEN y ELSE s[i]]

\* str.split(' ', 1)[0]
FirstWord(s) ==
    IF \A i \in 1..Len(s) : s[i] # " " THEN s
    ELSE SubSeq(s, 1, (CHOOSE i \in 1..Len(s) :
                          s[i] = " " /\ \A j \in 1..(i - 1) : s[j] # " ") - 1)

\* str.rsplit('@', 1)
RSplitAt(s) ==
    IF \A i \in 1..Len(s) : s[i] # "@" THEN <<s>>
    ELSE LET k == CHOOSE i \in 1..Len(s) :
                      s[i] = "@" /\ \A j \in (i + 1)..Len(s) : s[j] # "@"
         IN  <<SubSeq(s, 1, k - 1), SubSeq(s, k + 1, Len(s))>>

\* The command of parse_cmd(text), the first of the pair it returns.
parse_cmd(s) ==
    LET cmd == RSplitAt(FirstWord(Replace(Strip(s), Nbsp, " "))) IN
    IF Len(cmd[1]) < 2 \/ cmd[1][1] # "/" THEN NoCmd
    ELSE IF Len(cmd) > 1 /\ cmd[Len(cmd)] # CFGUsername THEN NoCmd
    ELSE Tail(cmd[1])

\* ------------------------------------------------------------------ state
VARIABLES
    template_cache, \* the registry: the template names in os.listdir order
    feed,           \* the upstream: its next update_id and its unconfirmed updates
    offset,         \* CFG['offset']
    poller,         \* getupdates: where it is, its bot_api call, its updates, and
                    \* history: what came before the call, the ids fetched so far
    MSG_Q,          \* queue.Queue()
    pc,             \* the dispatch loop: where it is
    d,              \* the update being handled
    text,           \* render_images: text
    args,           \* render_images: args
    ret,            \* render_images: ret
    idx,            \* render_images: the template the for loop is at
    nproc,          \* child processes started by this call of render_images
    proc,           \* generate_image: the child process
    renders,        \* the calls of generate_image in this call of render_images
    tmpsvg,         \* the NamedTemporaryFile of generate_image
    files,          \* CFG['images']: the files, each a path and its content
    executor,       \* the tasks submitted to executor, in order
    handled,        \* history: the updates handled, and how each ended
    lastcall,       \* history: the last call of render_images that ended
    rendered,       \* history: the file ids whose second conversion exited 0
    probe,          \* the arguments and results of a function applied alone
    running,        \* history: the child processes started and not yet ended
    inkscape_executor \* the tasks submitted to inkscape_executor, in order

vars == <<template_cache, feed, offset, poller, MSG_Q, pc, d, text, args, ret, idx,
          nproc, proc, renders, tmpsvg, files, executor, handled, lastcall,
          rendered, probe, running, inkscape_executor>>

pollerVars == <<feed, offset, poller>>
renderVars == <<text, args, ret, idx, nproc, proc, renders, tmpsvg, files, lastcall,
                rendered, running>>

NoUpdate == Update(0, [kind |-> "none", hasquery |-> FALSE, text |-> <<>>,
                       document |-> FALSE, chat |-> "none"])
NoProc == [cmd |-> "none", state |-> "none", returncode |-> 0]
NoFile == <<"none">>
Idle == [fn |-> "none"]
NoCall == [text |-> <<>>, returned |-> FALSE, ret |-> <<>>, nproc |-> 0,
           failed |-> {}, exc |-> "none"]

\* The state when the main thread enters its loop: update_templates() has run
\* and getupdates has been started.
Init ==
    /\ template_cache \in Registries
    /\ feed = [next |-> 1, pending |-> <<>>]
    /\ offset = 0
    /\ poller = [pc |-> "call", call |-> ApiStart, updates |-> <<>>,
                 since |-> "start", fetched |-> <<>>]
    /\ MSG_Q = <<>>
    /\ pc = "get"
    /\ d = NoUpdate
    /\ text = <<>>
    /\ args = <<>>
    /\ ret = <<>>
    /\ idx = 0
    /\ nproc = 0
    /\ proc = NoProc
    /\ renders = <<>>
    /\ tmpsvg = NoFile
    /\ files = {}
    /\ executor = <<>>
    /\ handled = <<>>
    /\ lastcall = NoCall
    /\ rendered = {}
    /\ probe = Idle
    /\ running = 0
    /\ inkscape_executor = <<>>

\* ------------------------------------------------------------- getupdates
\* The upstream gets a new update.
Arrive ==
    /\ feed.next <= MaxUpdates
    /\ \E p \in Payloads :
          feed' = [next |-> feed.next + 1,
                   pending |-> Append(feed.pending, Update(feed.next, p))]
    /\ UNCHANGED <<template_cache, offset, poller, MSG_Q, pc, d, renderVars,
                   executor, handled, probe, inkscape_executor>>

\* getUpdates(offset): the unconfirmed updates at or above the offset, in order.
Batch(off) == SelectSeq(feed.pending, LAMBDA u : u.update_id >= off)

\* bot_api('getUpdates') goes on: an empty body, or the backoff.
GetUpdatesRetry ==
    /\ poller.pc = "call"
    /\ \E c \in ApiNext(poller.call) :
          /\ c.pc \in {"post", "backoff"}
          /\ poller' = [poller EXCEPT !.call = c]
    /\ UNCHANGED <<template_cache, feed, offset, MSG_Q, pc, d, renderVars,
                   executor, handled, probe, inkscape_executor>>

\* bot_api('getUpdates') raised: logged, and continue (to the top of the loop).
GetUpdatesFailed ==
    /\ poller.pc = "call"
    /\ \E c \in ApiNext(poller.call) : c.pc = "raised"
    /\ poller' = [poller EXCEPT !.call = ApiStart, !.since = "failed"]
    /\ UNCHANGED <<template_cache, feed, offset, MSG_Q, pc, d, renderVars,
                   executor, handled, probe, inkscape_executor>>

\* A slip: the offset is set to the id of the last update, not past it.
NextOffsetLast(updates) == updates[Len(updates)].update_id

\* CFG['offset'] = updates[-1]["update_id"] + 1
NextOffset(updates) == updates[Len(updates)].update_id + 1

\* bot_api('getUpdates') returned the updates: the offset moves past the last.
\* The upstream forgets the updates below the offset of the next call.
GetUpdatesOk ==
    /\ poller.pc = "call"
    /\ \E c \in ApiNext(poller.call) : c.pc = "returned"
    /\ LET updates == Batch(offset) IN
          IF updates # <<>>
          THEN /\ offset' = NextOffset(updates)
               /\ poller' = [poller EXCEPT !.pc = "put", !.updates = updates,
                                           !.fetched = @ \o [i \in 1..Len(updates) |->
                                                                 updates[i].update_id]]
               /\ feed' = [feed EXCEPT !.pending =
                              SelectSeq(@, LAMBDA u : u.update_id >= offset')]
          ELSE /\ offset' = offset
               /\ poller' = [poller EXCEPT !.pc = "sleep"]
               /\ feed' = feed
    /\ UNCHANGED <<template_cache, MSG_Q, pc, d, renderVars, executor, handled, probe, inkscape_executor>>

\* A slip: the update is put at the head of the queue.
PutFirst ==
    /\ poller.pc = "put"
    /\ MSG_Q' = <<Head(poller.updates)>> \o MSG_Q
    /\ poller' = [poller EXCEPT !.updates = Tail(poller.updates),
                                !.pc = IF Len(poller.updates) = 1 THEN "sleep" ELSE "put"]
    /\ UNCHANGED <<template_cache, feed, offset, pc, d, renderVars,
                   executor, handled, probe, inkscape_executor>>

\* for upd in updates: MSG_Q.put(upd)
Put ==
    /\ poller.pc = "put"
    /\ MSG_Q' = Append(MSG_Q, Head(poller.updates))
    /\ poller' = [poller EXCEPT !.updates = Tail(poller.updates),
                                !.pc = IF Len(poller.updates) = 1 THEN "sleep" ELSE "put"]
    /\ UNCHANGED <<template_cache, feed, offset, pc, d, renderVars,
                   executor, handled, probe, inkscape_executor>>

\* time.sleep(.2) is over.
Sleep ==
    /\ poller.pc = "sleep"
    /\ poller' = [poller EXCEPT !.pc = "call", !.call = ApiStart, !.since = "sleep"]
    /\ UNCHANGED <<template_cache, feed, offset, MSG_Q, pc, d, renderVars,
                   executor, handled, probe, inkscape_executor>>

\* ------------------------------------------------------------ the files
\* filepath = os.path.join(CFG['images'], fileid + '.jpg'); the first
\* converter's output is filepath + '.png'.
FilePath(fileid) == <<fileid, ".jpg">>
PngPath(fileid) == <<fileid, ".jpg.png">>

\* A slip: the existence check looks at the first converter's output path.
IsFileAtPng(fs, path) == \E f \in fs : f.path = <<path[1], ".jpg.png">>

\* os.path.isfile(path)
IsFile(fs, path) == \E f \in fs : f.path = path

Unlink(fs, path) == {f \in fs : f.path # path}

Write(fs, path, content) == Unlink(fs, path) \cup {[path |-> path, content |-> content]}

\* What a child that fails or is killed can leave at its output path: what
\* was there before, or the part it had written.
Leaves(fs, path) == {fs, Write(fs, path, "partial")}

\* ---------------------------------------------------- handle_api_update
\* executor.submit(func_noerr, ...) of async_func.
Task(fn, id, s, results) ==
    [fn |-> fn, update_id |-> id, text |-> s, results |-> results,
     st |-> "queued", sent |-> <<>>, call |-> ApiStart, outcome |-> "none"]

\* inline_result(images)
inline_result(images) ==
    [i \in 1..Len(images) |->
        [type |-> "photo", id |-> images[i],
         photo_url |-> <<images[i], ".jpg">>, thumb_url |-> <<images[i], ".jpg">>]]

\* The locals of render_images and generate_image, no call being active.
RenderIdle ==
    /\ text' = <<>>
    /\ args' = <<>>
    /\ ret' = <<>>
    /\ idx' = 0
    /\ nproc' = 0
    /\ proc' = NoProc
    /\ renders' = <<>>
    /\ tmpsvg' = NoFile

\* Whether the update is an inline query whose text is not empty.
HasQuery(u) == u.kind = "inline_query" /\ u.hasquery /\ Strip(u.text) # <<>>

\* handle_api_update returns: back to MSG_Q.get().
Handled(outcome) ==
    /\ pc' = "get"
    /\ d' = NoUpdate
    /\ handled' = Append(handled, [update_id |-> d.update_id, query |-> HasQuery(d),
                                   outcome |-> outcome])

\* A slip: no try around the handling, so the exception ends the main loop.
Uncaught ==
    /\ pc' = "crashed"
    /\ d' = NoUpdate
    /\ handled' = Append(handled, [update_id |-> d.update_id, query |-> HasQuery(d),
                                   outcome |-> "exception"])

\* except Exception: logger_botapi.exception('Failed to process a message.')
Caught ==
    /\ Handled("exception")

\* The file ids of the calls of generate_image that returned False.
Failures(rs) == {rs[k].fileid : k \in {j \in 1..Len(rs) : rs[j].result = "False"}}

\* An exception leaves render_images: the call ends without a result.
Raised(exc) ==
    lastcall' = [text |-> text, returned |-> FALSE, ret |-> <<>>, nproc |-> nproc,
                 failed |-> Failures(renders), exc |-> exc]

\* while 1: handle_api_update(MSG_Q.get())
Get ==
    /\ pc = "get"
    /\ MSG_Q # <<>>
    /\ d' = Head(MSG_Q)
    /\ MSG_Q' = Tail(MSG_Q)
    /\ pc' = "handle"
    /\ UNCHANGED <<template_cache, pollerVars, renderVars, executor, handled, probe, inkscape_executor>>

\* 'inline_query' in d and query['query'] raises KeyError.
InlineMalformed ==
    /\ pc = "handle"
    /\ d.kind = "inline_query"
    /\ ~d.hasquery
    /\ Caught
    /\ UNCHANGED <<template_cache, pollerVars, MSG_Q, renderVars, executor, probe, inkscape_executor>>

\* text = query['query'].strip() is empty: nothing is done.
InlineEmpty ==
    /\ pc = "handle"
    /\ d.kind = "inline_query"
    /\ d.hasquery
    /\ Strip(d.text) = <<>>
    /\ Handled("done")
    /\ UNCHANGED <<template_cache, pollerVars, MSG_Q, renderVars, executor, probe, inkscape_executor>>

\* text is not empty: render_images(text) is entered.
InlineRender ==
    /\ pc = "handle"
    /\ d.kind = "inline_query"
    /\ d.hasquery
    /\ Strip(d.text) # <<>>
    /\ text' = Strip(d.text)
    /\ args' = Args(Strip(d.text))
    /\ ret' = <<>>
    /\ idx' = 1
    /\ nproc' = 0
    /\ pc' = "loop"
    /\ UNCHANGED <<template_cache, pollerVars, MSG_Q, d, proc, renders, tmpsvg, files,
                   lastcall, rendered, executor, handled, probe, inkscape_executor, running>>

\* A slip: the type of the chat is not looked at.
ReplyAnyChat(m) ==
    IF m.document THEN <<>>
    ELSE IF m.text = <<>> THEN <<>>
    ELSE IF parse_cmd(m.text) = <<"s", "t", "a", "r", "t">> THEN START
    ELSE IF parse_cmd(m.text) = <<"d", "e", "l", "s", "v", "g">> THEN NotImplemented
    ELSE HELP

\* The reply to a message: ret of handle_api_update, empty for None.
Reply(m) ==
    IF m.document THEN <<>>
    ELSE IF m.text = <<>> THEN <<>>
    ELSE IF m.chat # "private" THEN <<>>
    ELSE IF parse_cmd(m.text) = <<"s", "t", "a", "r", "t">> THEN START
    ELSE IF parse_cmd(m.text) = <<"d", "e", "l", "s", "v", "g">> THEN NotImplemented
    ELSE HELP

\* elif 'message' in d: the reply, if any, is submitted as a sendmsg task.
Message ==
    /\ pc = "handle"
    /\ d.kind = "message"
    /\ executor' = IF Reply(d) # <<>>
                   THEN Append(executor, Task("sendmsg", d.update_id, Reply(d), <<>>))
                   ELSE executor
    /\ Handled("done")
    /\ UNCHANGED <<template_cache, pollerVars, MSG_Q, renderVars, probe, inkscape_executor>>

\* ---------------------------------------------------------- render_images
\* The template the for loop is at, and its file id.
Template == template_cache[idx]
fileid == FileId(Template, text)

\* One call of generate_image: the stages whose timeout expired, the stages
\* whose child was killed, and what the call gave.
Render(id) == [fileid |-> id, timedout |-> {}, killed |-> {}, result |-> "running"]
Current == renders[Len(renders)]
Last(rs, r) == [rs EXCEPT ![Len(rs)] = r]
Ended(rs, result) == Last(rs, [rs[Len(rs)] EXCEPT !.result = result])

\* The for loop is over: return ret, and answer(query['id'], inline_result(images)).
RenderReturn ==
    /\ pc = "loop"
    /\ idx > Len(template_cache)
    /\ lastcall' = [text |-> text, returned |-> TRUE, ret |-> ret, nproc |-> nproc,
                    failed |-> Failures(renders), exc |-> "none"]
    /\ executor' = Append(executor, Task("answer", d.update_id, <<>>, inline_result(ret)))
    /\ Handled("done")
    /\ RenderIdle
    /\ UNCHANGED <<template_cache, pollerVars, MSG_Q, files, rendered, probe, inkscape_executor, running>>

\* if os.path.isfile(filepath): ret.append(fileid)
CacheHit ==
    /\ pc = "loop"
    /\ idx <= Len(template_cache)
    /\ IsFile(files, FilePath(fileid))
    /\ ret' = Append(ret, fileid)
    /\ idx' = idx + 1
    /\ UNCHANGED <<template_cache, pollerVars, MSG_Q, pc, d, text, args, nproc, proc,
                   renders, tmpsvg, files, lastcall, rendered, executor, handled, probe, inkscape_executor, running>>

\* else: generate_image is entered; the template is read, expanded and
\* written to the temporary file.
CacheMiss ==
    /\ pc = "loop"
    /\ idx <= Len(template_cache)
    /\ ~IsFile(files, FilePath(fileid))
    /\ ~FormatRaises(TemplateFile(Template), args)
    /\ tmpsvg' = Format(TemplateFile(Template), args)
    /\ renders' = Append(renders, Render(fileid))
    /\ pc' = "popen1"
    /\ UNCHANGED <<template_cache, pollerVars, MSG_Q, d, text, args, ret, idx, nproc, proc,
                   files, lastcall, rendered, executor, handled, probe, inkscape_executor, running>>

\* f.read().format(*args) raises: nothing in generate_image or render_images
\* catches it, handle_api_update does.
FormatError ==
    /\ pc = "loop"
    /\ idx <= Len(template_cache)
    /\ ~IsFile(files, FilePath(fileid))
    /\ FormatRaises(TemplateFile(Template), args)
    /\ Raised("IndexError")
    /\ Caught
    /\ RenderIdle
    /\ UNCHANGED <<template_cache, pollerVars, MSG_Q, files, rendered, executor, probe, inkscape_executor, running>>

\* subprocess.Popen(('inkscape', ...)) starts the child.
Popen1 ==
    /\ pc = "popen1"
    /\ proc' = [cmd |-> "inkscape", state |-> "running", returncode |-> 0]
    /\ nproc' = nproc + 1
    /\ pc' = "communicate1"
    /\ running' = running + 1
    /\ UNCHANGED <<template_cache, pollerVars, MSG_Q, d, text, args, ret, idx, renders,
                   tmpsvg, files, lastcall, rendered, executor, handled, probe, inkscape_executor>>

\* subprocess.Popen raises (no such program): the with statement removes the
\* temporary file and the exception goes up to handle_api_update.
Popen1Raises ==
    /\ pc = "popen1"
    /\ Raised("FileNotFoundError")
    /\ Caught
    /\ RenderIdle
    /\ UNCHANGED <<template_cache, pollerVars, MSG_Q, files, rendered, executor, probe, inkscape_executor, running>>

\* inkscape exits within the timeout: with 0 and the raster file written, or
\* with another status.
Exit1 ==
    /\ pc = "communicate1"
    /\ \/ /\ proc' = [proc EXCEPT !.state = "exited", !.returncode = 0]
          /\ files' = Write(files, PngPath(fileid), "complete")
       \/ /\ proc' = [proc EXCEPT !.state = "exited", !.returncode = 1]
          /\ files' \in Leaves(files, PngPath(fileid))
    /\ pc' = "returncode1"
    /\ running' = running - 1
    /\ UNCHANGED <<template_cache, pollerVars, MSG_Q, d, text, args, ret, idx, nproc,
                   renders, tmpsvg, lastcall, rendered, executor, handled, probe, inkscape_executor>>

\* proc.communicate(timeout=10) raises TimeoutExpired: inkscape is still running.
Timeout1 ==
    /\ pc = "communicate1"
    /\ renders' = Last(renders, [Current EXCEPT !.timedout = @ \cup {1}])
    /\ pc' = "kill1"
    /\ UNCHANGED <<template_cache, pollerVars, MSG_Q, d, text, args, ret, idx, nproc, proc,
                   tmpsvg, files, lastcall, rendered, executor, handled, probe, inkscape_executor, running>>

\* proc.kill(); proc.communicate()
Kill1 ==
    /\ pc = "kill1"
    /\ proc' = [proc EXCEPT !.state = "killed", !.returncode = Killed]
    /\ renders' = Last(renders, [Current EXCEPT !.killed = @ \cup {1}])
    /\ files' \in Leaves(files, PngPath(fileid))
    /\ pc' = "returncode1"
    /\ running' = running - 1
    /\ UNCHANGED <<template_cache, pollerVars, MSG_Q, d, text, args, ret, idx, nproc,
                   tmpsvg, lastcall, rendered, executor, handled, probe, inkscape_executor>>

\* if proc.returncode != 0: ... return False, and render_images goes to the
\* next template.
Failed1 ==
    /\ pc = "returncode1"
    /\ proc.returncode # 0
    /\ renders' = Ended(renders, "False")
    /\ tmpsvg' = NoFile
    /\ proc' = NoProc
    /\ idx' = idx + 1
    /\ pc' = "loop"
    /\ UNCHANGED <<template_cache, pollerVars, MSG_Q, d, text, args, ret, nproc,
                   files, lastcall, rendered, executor, handled, probe, inkscape_executor, running>>

\* The return code is 0: subprocess.Popen(('convert', ...)) starts the child.
Popen2 ==
    /\ pc = "returncode1"
    /\ proc.returncode = 0
    /\ proc' = [cmd |-> "convert", state |-> "running", returncode |-> 0]
    /\ nproc' = nproc + 1
    /\ pc' = "communicate2"
    /\ running' = running + 1
    /\ UNCHANGED <<template_cache, pollerVars, MSG_Q, d, text, args, ret, idx, renders,
                   tmpsvg, files, lastcall, rendered, executor, handled, probe, inkscape_executor>>

\* subprocess.Popen raises for convert: the raster file stays.
Popen2Raises ==
    /\ pc = "returncode1"
    /\ proc.returncode = 0
    /\ Raised("FileNotFoundError")
    /\ Caught
    /\ RenderIdle
    /\ UNCHANGED <<template_cache, pollerVars, MSG_Q, files, rendered, executor, probe, inkscape_executor, running>>

\* convert exits within the timeout: with 0 and the file written at
\* filepath, or with another status.
Exit2 ==
    /\ pc = "communicate2"
    /\ \/ /\ proc' = [proc EXCEPT !.state = "exited", !.returncode = 0]
          /\ files' = Write(files, FilePath(fileid), "complete")
          /\ rendered' = rendered \cup {fileid}
       \/ /\ proc' = [proc EXCEPT !.state = "exited", !.returncode = 1]
          /\ files' \in Leaves(files, FilePath(fileid))
          /\ rendered' = rendered
    /\ pc' = "unlink"
    /\ running' = running - 1
    /\ UNCHANGED <<template_cache, pollerVars, MSG_Q, d, text, args, ret, idx, nproc,
                   renders, tmpsvg, lastcall, executor, handled, probe, inkscape_executor>>

\* A slip: TimeoutExpired is passed over and the child is left running.
Timeout2NoKill ==
    /\ pc = "communicate2"
    /\ renders' = Last(renders, [Current EXCEPT !.timedout = @ \cup {2}])
    /\ pc' = "unlink"
    /\ UNCHANGED <<template_cache, pollerVars, MSG_Q, d, text, args, ret, idx, nproc, proc,
                   tmpsvg, files, lastcall, rendered, executor, handled, probe, inkscape_executor, running>>

\* proc.communicate(timeout=10) raises TimeoutExpired: convert is still running.
Timeout2 ==
    /\ pc = "communicate2"
    /\ renders' = Last(renders, [Current EXCEPT !.timedout = @ \cup {2}])
    /\ pc' = "kill2"
    /\ UNCHANGED <<template_cache, pollerVars, MSG_Q, d, text, args, ret, idx, nproc, proc,
                   tmpsvg, files, lastcall, rendered, executor, handled, probe, inkscape_executor, running>>

\* proc.kill(); proc.communicate()
Kill2 ==
    /\ pc = "kill2"
    /\ proc' = [proc EXCEPT !.state = "killed", !.returncode = Killed]
    /\ renders' = Last(renders, [Current EXCEPT !.killed = @ \cup {2}])
    /\ files' \in Leaves(files, FilePath(fileid))
    /\ pc' = "unlink"
    /\ running' = running - 1
    /\ UNCHANGED <<template_cache, pollerVars, MSG_Q, d, text, args, ret, idx, nproc,
                   tmpsvg, lastcall, rendered, executor, handled, probe, inkscape_executor>>

\* os.unlink(output + '.png'), FileNotFoundError passed over.
UnlinkPng ==
    /\ pc = "unlink"
    /\ files' = Unlink(files, PngPath(fileid))
    /\ pc' = "returncode2"
    /\ UNCHANGED <<template_cache, pollerVars, MSG_Q, d, text, args, ret, idx, nproc, proc,
                   renders, tmpsvg, lastcall, rendered, executor, handled, probe, inkscape_executor, running>>

\* if proc.returncode != 0: ... return False
Failed2 ==
    /\ pc = "returncode2"
    /\ proc.returncode # 0
    /\ renders' = Ended(renders, "False")
    /\ tmpsvg' = NoFile
    /\ proc' = NoProc
    /\ idx' = idx + 1
    /\ pc' = "loop"
    /\ UNCHANGED <<template_cache, pollerVars, MSG_Q, d, text, args, ret, nproc,
                   files, lastcall, rendered, executor, handled, probe, inkscape_executor, running>>

\* return True, and ret.append(fileid)
Success ==
    /\ pc = "returncode2"
    /\ proc.returncode = 0
    /\ ret' = Append(ret, fileid)
    /\ renders' = Ended(renders, "True")
    /\ tmpsvg' = NoFile
    /\ proc' = NoProc
    /\ idx' = idx + 1
    /\ pc' = "loop"
    /\ UNCHANGED <<template_cache, pollerVars, MSG_Q, d, text, args, nproc,
                   files, lastcall, rendered, executor, handled, probe, inkscape_executor, running>>

\* --------------------------------------------------------------- executor
\* The tasks a worker of the pool is running.
Running == {i \in 1..Len(executor) : executor[i].st = "running"}

\* A free worker takes the oldest queued task.
CanStart(i) ==
    /\ i \in 1..Len(executor)
    /\ executor[i].st = "queued"
    /\ \A j \in 1..(i - 1) : executor[j].st # "queued"
    /\ Cardinality(Running) < Workers

\* The one character U+2026 that sendmsg ends a cut text with.
Ellipsis == "..."

\* sendmsg: text[:1999] + the ellipsis when len(text) > 2000; the first is a
\* slip that cuts a text of 2000 characters too.
TruncatedFromLimit(s) ==
    IF Len(s) >= MaxText THEN Append(SubSeq(s, 1, KeepText), Ellipsis) ELSE s

Truncated(s) == IF Len(s) > MaxText THEN Append(SubSeq(s, 1, KeepText), Ellipsis) ELSE s

\* sendmsg up to its call of bot_api: an empty text is logged and dropped;
\* sent is the text handed to bot_api.
SendmsgStart(t) ==
    IF Strip(t.text) = <<>>
    THEN [t EXCEPT !.st = "done", !.outcome = "ignored"]
    ELSE [t EXCEPT !.sent = Truncated(Strip(t.text)), !.st = "running"]

\* func_noerr is started on a worker.
TaskStart ==
    /\ \E i \in 1..Len(executor) :
          /\ CanStart(i)
          /\ executor' = [executor EXCEPT ![i] =
                 IF @.fn = "sendmsg" THEN SendmsgStart(@) ELSE [@ EXCEPT !.st = "running"]]
    /\ UNCHANGED <<template_cache, pollerVars, MSG_Q, pc, d, renderVars, handled, probe, inkscape_executor>>

\* The task's bot_api goes on: an empty body, or the backoff.
TaskRetry ==
    /\ \E i \in Running : \E c \in ApiNext(executor[i].call) :
          /\ c.pc \in {"post", "backoff"}
          /\ executor' = [executor EXCEPT ![i].call = c]
    /\ UNCHANGED <<template_cache, pollerVars, MSG_Q, pc, d, renderVars, handled, probe, inkscape_executor>>

\* The task's bot_api returned: the reply is delivered.
TaskDelivered ==
    /\ \E i \in Running : \E c \in ApiNext(executor[i].call) :
          /\ c.pc = "returned"
          /\ executor' = [executor EXCEPT ![i].call = c, ![i].st = "done",
                                          ![i].outcome = "delivered"]
    /\ UNCHANGED <<template_cache, pollerVars, MSG_Q, pc, d, renderVars, handled, probe, inkscape_executor>>

\* A slip: the task whose bot_api raised is submitted again.
TaskFailedResubmits ==
    /\ \E i \in Running : \E c \in ApiNext(executor[i].call) :
          /\ c.pc = "raised"
          /\ executor' = Append([executor EXCEPT ![i].call = c, ![i].st = "done",
                                                 ![i].outcome = "dropped"],
                                Task(executor[i].fn, executor[i].update_id,
                                     executor[i].text, executor[i].results))
    /\ UNCHANGED <<template_cache, pollerVars, MSG_Q, pc, d, renderVars, handled, probe,
                   inkscape_executor>>

\* The task's bot_api raised: func_noerr logs it, and the task is over.
TaskFailed ==
    /\ \E i \in Running : \E c \in ApiNext(executor[i].call) :
          /\ c.pc = "raised"
          /\ executor' = [executor EXCEPT ![i].call = c, ![i].st = "done",
                                          ![i].outcome = "dropped"]
    /\ UNCHANGED <<template_cache, pollerVars, MSG_Q, pc, d, renderVars, handled, probe, inkscape_executor>>

\* ------------------------------------------------------------- the program
Poller == Arrive \/ GetUpdatesRetry \/ GetUpdatesFailed \/ GetUpdatesOk \/ Put \/ Sleep

Dispatch ==
    \/ Get \/ InlineMalformed \/ InlineEmpty \/ InlineRender \/ Message
    \/ RenderReturn \/ CacheHit \/ CacheMiss \/ FormatError
    \/ Popen1 \/ Popen1Raises \/ Exit1 \/ Timeout1 \/ Kill1 \/ Failed1
    \/ Popen2 \/ Popen2Raises \/ Exit2 \/ Timeout2 \/ Kill2 \/ UnlinkPng
    \/ Failed2 \/ Success

Pool == TaskStart \/ TaskRetry \/ TaskDelivered \/ TaskFailed

Next == Poller \/ Dispatch \/ Pool

Spec == Init /\ [][Next]_vars

\* ------------------------------------------------- the dispatch loop alone
\* The queues getupdates can have filled before the main thread takes its
\* first update: updates 1..n, in order.
Queues ==
    UNION {{[i \in 1..n |-> Update(i, ps[i])] : ps \in [1..n -> Payloads]} : n \in 0..MaxQueue}

InitDispatch ==
    /\ template_cache \in Registries
    /\ MSG_Q \in Queues
    /\ feed = [next |-> Len(MSG_Q) + 1, pending |-> <<>>]
    /\ offset = IF MSG_Q = <<>> THEN 0 ELSE Len(MSG_Q) + 1
    /\ poller = [pc |-> "sleep", call |-> ApiStart, updates |-> <<>>,
                 since |-> "start", fetched |-> [i \in 1..Len(MSG_Q) |-> MSG_Q[i].update_id]]
    /\ pc = "get"
    /\ d = NoUpdate
    /\ text = <<>>
    /\ args = <<>>
    /\ ret = <<>>
    /\ idx = 0
    /\ nproc = 0
    /\ proc = NoProc
    /\ renders = <<>>
    /\ tmpsvg = NoFile
    /\ files = {}
    /\ executor = <<>>
    /\ handled = <<>>
    /\ lastcall = NoCall
    /\ rendered = {}
    /\ probe = Idle
    /\ running = 0
    /\ inkscape_executor = <<>>

\* The main thread runs on: a step it can take is taken in the end.  A child
\* process exits or its timeout expires; nothing else is waited for but the
\* queue.
DispatchLoop == InitDispatch /\ [][Dispatch]_vars /\ WF_vars(Dispatch)

\* ---------------------------------------------------- the executor alone
\* A reply text of n characters, none of them whitespace.
Body(n) == [i \in 1..n |-> IF i % 2 = 1 THEN "a" ELSE "b"]
Pad(n) == [i \in 1..n |-> " "]

\* Lengths on both sides of the limit of sendmsg.
ReplyLengths == {0, 1, KeepText, MaxText, MaxText + 1, MaxText + 50}

ReplyTexts ==
    {Pad(l) \o Body(n) \o Pad(r) : n \in ReplyLengths, l \in 0..MaxPad, r \in 0..MaxPad}

\* sendmsg or answer is called alone: its task is submitted, the text of a
\* sendmsg drawn from the reply texts, and no update is at hand.
InitPool ==
    /\ template_cache \in Registries
    /\ feed = [next |-> 1, pending |-> <<>>]
    /\ offset = 0
    /\ poller = [pc |-> "sleep", call |-> ApiStart, updates |-> <<>>,
                 since |-> "start", fetched |-> <<>>]
    /\ MSG_Q = <<>>
    /\ pc = "get"
    /\ d = NoUpdate
    /\ text = <<>>
    /\ args = <<>>
    /\ ret = <<>>
    /\ idx = 0
    /\ nproc = 0
    /\ proc = NoProc
    /\ renders = <<>>
    /\ tmpsvg = NoFile
    /\ files = {}
    /\ executor \in {<<Task("sendmsg", 0, s, <<>>)>> : s \in ReplyTexts}
                    \cup {<<Task("answer", 0, <<>>, inline_result(<<>>))>>}
    /\ handled = <<>>
    /\ lastcall = NoCall
    /\ rendered = {}
    /\ probe = Idle
    /\ running = 0
    /\ inkscape_executor = <<>>

PoolAlone == InitPool /\ [][Pool]_vars

\* ------------------------------------------------------- the key alone
\* The characters of the names and texts the key is computed for.
KeyChars == {"a", "|"}

\* A template name is the name of a file before '.svg' and a request text is
\* what strip() left of a query: neither is empty.
KeyStrings == UNION {[1..n -> KeyChars] : n \in 1..MaxKeyLen}

InitKey ==
    /\ template_cache \in Registries
    /\ feed = [next |-> 1, pending |-> <<>>]
    /\ offset = 0
    /\ poller = [pc |-> "call", call |-> ApiStart, updates |-> <<>>,
                 since |-> "start", fetched |-> <<>>]
    /\ MSG_Q = <<>>
    /\ pc = "get"
    /\ d = NoUpdate
    /\ text = <<>>
    /\ args = <<>>
    /\ ret = <<>>
    /\ idx = 0
    /\ nproc = 0
    /\ proc = NoProc
    /\ renders = <<>>
    /\ tmpsvg = NoFile
    /\ files = {}
    /\ executor = <<>>
    /\ handled = <<>>
    /\ lastcall = NoCall
    /\ rendered = {}
    /\ probe \in {[fn |-> "args", t1 |-> t1, s1 |-> s1, t2 |-> t2, s2 |-> s2,
                   k1 |-> 0, k2 |-> 0] :
                     t1 \in KeyStrings, s1 \in KeyStrings, t2 \in KeyStrings, s2 \in KeyStrings}
    /\ running = 0
    /\ inkscape_executor = <<>>

\* fileid = hashstr('%s|%s' % (template, text)), for both pairs.
ComputeKeys ==
    /\ probe.fn = "args"
    /\ probe' = [probe EXCEPT !.fn = "keys", !.k1 = FileId(probe.t1, probe.s1),
                              !.k2 = FileId(probe.t2, probe.s2)]
    /\ UNCHANGED <<template_cache, pollerVars, MSG_Q, pc, d, renderVars, executor, handled, inkscape_executor>>

KeyAlone == InitKey /\ [][ComputeKeys]_vars

\* ---------------------------------------------------- the messages alone
\* The queues of messages the main thread can find, updates 1..n.
MessageQueues ==
    UNION {{[i \in 1..n |-> Update(i, ps[i])] : ps \in [1..n -> MessagePayloads]} :
              n \in 0..MaxQueue}

InitMessages ==
    /\ template_cache \in Registries
    /\ MSG_Q \in MessageQueues
    /\ feed = [next |-> Len(MSG_Q) + 1, pending |-> <<>>]
    /\ offset = IF MSG_Q = <<>> THEN 0 ELSE Len(MSG_Q) + 1
    /\ poller = [pc |-> "sleep", call |-> ApiStart, updates |-> <<>>,
                 since |-> "start", fetched |-> [i \in 1..Len(MSG_Q) |-> MSG_Q[i].update_id]]
    /\ pc = "get"
    /\ d = NoUpdate
    /\ text = <<>>
    /\ args = <<>>
    /\ ret = <<>>
    /\ idx = 0
    /\ nproc = 0
    /\ proc = NoProc
    /\ renders = <<>>
    /\ tmpsvg = NoFile
    /\ files = {}
    /\ executor = <<>>
    /\ handled = <<>>
    /\ lastcall = NoCall
    /\ rendered = {}
    /\ probe = Idle
    /\ running = 0
    /\ inkscape_executor = <<>>

\* The main thread handles messages only.
Messaging == InitMessages /\ [][Get \/ Message]_vars

\* ------------------------------------------------- update_templates
\* The files CFG['templates'] can hold: os.path.splitext gives name and ext.
DirFiles == {[name |-> <<"t">>, ext |-> ".svg"], [name |-> <<"u">>, ext |-> ".svg"],
             [name |-> <<"n">>, ext |-> ".txt"]}

\* os.listdir(dir): the files of the directory, in any order.
Listings(dir) ==
    {l \in [1..Cardinality(dir) -> dir] : \A i, j \in 1..Len(l) : i # j => l[i] # l[j]}

\* update_templates is called again while the program runs, and another thread
\* reads template_cache: before is the registry at the call, seen what the
\* reader has read since.
InitReload ==
    /\ template_cache \in Registries
    /\ feed = [next |-> 1, pending |-> <<>>]
    /\ offset = 0
    /\ poller = [pc |-> "sleep", call |-> ApiStart, updates |-> <<>>,
                 since |-> "start", fetched |-> <<>>]
    /\ MSG_Q = <<>>
    /\ pc = "get"
    /\ d = NoUpdate
    /\ text = <<>>
    /\ args = <<>>
    /\ ret = <<>>
    /\ idx = 0
    /\ nproc = 0
    /\ proc = NoProc
    /\ renders = <<>>
    /\ tmpsvg = NoFile
    /\ files = {}
    /\ executor = <<>>
    /\ handled = <<>>
    /\ lastcall = NoCall
    /\ rendered = {}
    /\ \E dir \in SUBSET DirFiles :
          probe = [fn |-> "update_templates", pc |-> "start", dir |-> dir,
                   listing |-> <<>>, at |-> 0, before |-> template_cache, seen |-> {}]
    /\ running = 0
    /\ inkscape_executor = <<>>

\* template_cache = collections.OrderedDict()
ReloadStart ==
    /\ probe.fn = "update_templates"
    /\ probe.pc = "start"
    /\ template_cache' = <<>>
    /\ probe' = [probe EXCEPT !.pc = "listdir"]
    /\ UNCHANGED <<pollerVars, MSG_Q, pc, d, renderVars, executor, handled,
                   inkscape_executor>>

\* os.listdir(CFG['templates']) returns the listing.
Listdir ==
    /\ probe.fn = "update_templates"
    /\ probe.pc = "listdir"
    /\ \E l \in Listings(probe.dir) :
          probe' = [probe EXCEPT !.pc = "for", !.listing = l, !.at = 1]
    /\ UNCHANGED <<template_cache, pollerVars, MSG_Q, pc, d, renderVars, executor,
                   handled, inkscape_executor>>

\* os.listdir raises OSError (the directory is gone, or cannot be read):
\* the exception leaves update_templates.
ListdirRaises ==
    /\ probe.fn = "update_templates"
    /\ probe.pc = "listdir"
    /\ probe' = [probe EXCEPT !.pc = "raised"]
    /\ UNCHANGED <<template_cache, pollerVars, MSG_Q, pc, d, renderVars, executor,
                   handled, inkscape_executor>>

\* One round of the for loop: if ext == '.svg': template_cache[name] = ...
ReloadEntry ==
    /\ probe.fn = "update_templates"
    /\ probe.pc = "for"
    /\ probe.at <= Len(probe.listing)
    /\ template_cache' = IF probe.listing[probe.at].ext = ".svg"
                         THEN Append(template_cache, probe.listing[probe.at].name)
                         ELSE template_cache
    /\ probe' = [probe EXCEPT !.at = probe.at + 1]
    /\ UNCHANGED <<pollerVars, MSG_Q, pc, d, renderVars, executor, handled,
                   inkscape_executor>>

\* The for loop is over: update_templates returns.
ReloadReturn ==
    /\ probe.fn = "update_templates"
    /\ probe.pc = "for"
    /\ probe.at > Len(probe.listing)
    /\ probe' = [probe EXCEPT !.pc = "returned"]
    /\ UNCHANGED <<template_cache, pollerVars, MSG_Q, pc, d, renderVars, executor,
                   handled, inkscape_executor>>

\* Another thread reads the global: for ... in template_cache.items()
Observe ==
    /\ probe.fn = "update_templates"
    /\ template_cache \notin probe.seen
    /\ probe' = [probe EXCEPT !.seen = @ \cup {template_cache}]
    /\ UNCHANGED <<template_cache, pollerVars, MSG_Q, pc, d, renderVars, executor,
                   handled, inkscape_executor>>

Reload == ReloadStart \/ Listdir \/ ListdirRaises \/ ReloadEntry \/ ReloadReturn

Reloading == InitReload /\ [][Reload \/ Observe]_vars

\* ------------------------------------- the poller and the dispatch loop
\* The two threads of the program, the replies left unsent.
Fetching == Init /\ [][Poller \/ Dispatch]_vars

\* ----------------------------------- the dispatch loop and the executor
\* The main thread and the workers of the executor, on a filled queue.
Replying == InitDispatch /\ [][Dispatch \/ Pool]_vars

\* ================================================================ claims
Range(q) == {q[i] : i \in 1..Len(q)}

\* The file ids of a call of render_images on s, in registry order.
Ids(s) == [i \in 1..Len(template_cache) |-> FileId(template_cache[i], s)]

\* A call of render_images on the text of the call before it is under way.
SecondCall == pc \notin {"get", "handle", "crashed"} /\ lastcall.text = text

\* The for loop of render_images is over and ret is about to be returned.
AtReturn == pc = "loop" /\ idx > Len(template_cache)

\* C1 (as claimed): in every state, a file at a final path <key>.jpg is there
\* only if the two conversions for that key both ended well; no failure and no
\* timeout of a converter leaves a file, whole or partial, at the final path.
C1_FinalFileOnlyAfterFullConversion ==
    \A f \in files :
        f.path[2] = ".jpg" => f.path[1] \in rendered /\ f.content = "complete"

NotFailed(call) == SelectSeq(Ids(call.text), LAMBDA id : id \notin call.failed)

\* C3 (as claimed): a render that fails for one template, for whatever reason,
\* reaches render_images as a false result and never as an exception, and the
\* call still returns the identifiers of all the other templates, in order.
C3_FailureIsFalseNeverException ==
    lastcall.text # <<>> =>
        /\ lastcall.exc = "none"
        /\ lastcall.returned
        /\ lastcall.ret = NotFailed(lastcall)

\* C4 (as claimed): the key is injective on (template name, request text), the
\* names and texts holding '|' included: equal keys only for equal pairs.
C4_KeyInjective ==
    probe.fn = "keys" =>
        ((probe.k1 = probe.k2) <=> (probe.t1 = probe.t2 /\ probe.s1 = probe.s2))

InQueue(i) == \E k \in 1..Len(MSG_Q) : MSG_Q[k].update_id = i
IsHandled(i) == \E k \in 1..Len(handled) : handled[k].update_id = i
Excepted(j) ==
    \E k \in 1..Len(handled) : handled[k].update_id = j /\ handled[k].outcome = "exception"

\* C5: an exception raised while one update is handled is caught, the main loop
\* goes back to the queue, and every update still on the queue then is taken
\* and handled in the end.
C5_LoopSurvivesException ==
    /\ [](pc # "crashed")
    /\ \A i \in 1..MaxQueue :
          (InQueue(i) /\ \E j \in 1..MaxQueue : Excepted(j)) ~> IsHandled(i)

C5_Witness ==
    /\ Len(handled) >= 2
    /\ handled[1].outcome = "exception"
    /\ handled[2].update_id = 2
    /\ pc = "get"

\* A call of generate_image that ended after a timeout: the child of each stage
\* that timed out was killed, the call gave False, and its identifier is not
\* among those render_images has collected (at the end of the for loop, those
\* it returns).
TimeoutIsFailure(rs, ids) ==
    \A k \in 1..Len(rs) :
        (rs[k].timedout # {} /\ rs[k].result # "running") =>
            /\ rs[k].killed = rs[k].timedout
            /\ rs[k].result = "False"
            /\ rs[k].fileid \notin Range(ids)

Started(t) == t.fn = "sendmsg" /\ t.st # "queued"

\* C7 (as claimed): a text longer than 2000 characters after trimming is handed
\* on as its first 1999 characters and the marker; a text of at most 2000
\* characters (after trimming) is handed on unchanged.
C7_EveryTextDelivered ==
    \A i \in 1..Len(executor) :
        Started(executor[i]) =>
            LET s == Strip(executor[i].text) IN
            /\ executor[i].outcome # "ignored"
            /\ Len(s) > 2000 =>
                  executor[i].sent = SubSeq(s, 1, 1999) \o <<Ellipsis>>
            /\ Len(s) <= 2000 => executor[i].sent = s

\* C7 (amended): a text longer than 2000 characters after trimming is handed to
\* bot_api as its first 1999 characters and the marker, 2000 in all; a text of 1
\* to 2000 characters after trimming is handed on as trimmed; a text that is
\* empty after trimming is not handed on at all.
C7_TruncatedOrTrimmedOrIgnored ==
    \A i \in 1..Len(executor) :
        Started(executor[i]) =>
            LET s == Strip(executor[i].text) IN
            /\ Len(s) > 2000 =>
                  /\ executor[i].sent = SubSeq(s, 1, 1999) \o <<Ellipsis>>
                  /\ Len(executor[i].sent) = 2000
                  /\ executor[i].outcome # "ignored"
            /\ (Len(s) >= 1 /\ Len(s) <= 2000) =>
                  /\ executor[i].sent = s
                  /\ executor[i].outcome # "ignored"
            /\ Len(s) = 0 =>
                  /\ executor[i].outcome = "ignored"
                  /\ executor[i].call.tries = 0

C7_Witness ==
    \E i \in 1..Len(executor) :
        /\ Started(executor[i])
        /\ Len(executor[i].text) = 2052
        /\ Len(Strip(executor[i].text)) = 2050
        /\ Len(executor[i].sent) = 2000
        /\ executor[i].outcome = "delivered"

\* C8 (as claimed): after a render for (template, text) failed at either
\* stage, the next call on the same text does not take the identifier as a
\* cache hit: it gets into the result only by a new render.
C8_FailedRenderIsRetried ==
    SecondCall =>
        \A id \in lastcall.failed :
            id \in Range(ret) => \E j \in 1..Len(renders) : renders[j].fileid = id

\* The answer tasks submitted for an update.
Answers(id) ==
    {i \in 1..Len(executor) : executor[i].fn = "answer" /\ executor[i].update_id = id}

\* C9 (as claimed): every inline query with a text that is not empty leads to
\* exactly one answer task, whatever made its renders fail; the answer of the
\* query handled last holds the identifiers that call returned.
C9_OneAnswerPerInlineQuery ==
    \A k \in 1..Len(handled) :
        handled[k].query =>
            /\ Cardinality(Answers(handled[k].update_id)) = 1
            /\ k = Len(handled) =>
                  \A i \in Answers(handled[k].update_id) :
                      executor[i].results = inline_result(lastcall.ret)

\* The delivery was given up because its attempts failed.
GivenUp(t) == t.outcome = "dropped" /\ t.call.exc \in {"network", "UnboundLocalError"}

\* C10 (as claimed): a delivery whose attempts keep failing is given up only
\* after the third failed attempt.
C10_GivenUpAfterThreeAttempts ==
    \A i \in 1..Len(executor) : GivenUp(executor[i]) => executor[i].call.tries = 3

\* The ids of a sequence of updates.
UpdateIds(q) == [i \in 1..Len(q) |-> q[i].update_id]

\* The updates whose handling has begun, in the order it began: those handled
\* and the one at hand.
Begun == UpdateIds(handled) \o (IF d # NoUpdate THEN <<d.update_id>> ELSE <<>>)

\* C11: updates are handled in the order getupdates fetched them, within a
\* batch and across batches: the updates whose handling has begun are the
\* first of the fetch order, in that order, and all but the last of them have
\* been handled to the end.
C11_HandledInFetchOrder ==
    /\ Len(Begun) <= Len(poller.fetched)
    /\ Begun = SubSeq(poller.fetched, 1, Len(Begun))
    /\ Len(handled) >= Len(Begun) - 1

C11_Witness ==
    /\ poller.fetched = <<1, 2>>
    /\ UpdateIds(handled) = <<1>>
    /\ d.update_id = 2
    /\ poller.since = "sleep"

\* C12: CFG['offset'] never decreases and changes only in a step of getupdates
\* that got a batch that is not empty, which sets it to the id of the last
\* update of the batch plus one; a fetch that failed or gave nothing leaves it.
C12_OffsetOnlyAdvancesOnFetch ==
    [][/\ offset' >= offset
       /\ offset' # offset =>
             /\ poller.pc = "call" /\ poller'.pc = "put"
             /\ poller'.updates # <<>>
             /\ \A i \in 1..Len(poller'.updates) : poller'.updates[i].update_id >= offset
             /\ offset' = poller'.updates[Len(poller'.updates)].update_id + 1
       /\ (poller.pc = "call" /\ poller'.pc = "put") => offset' # offset
       /\ (poller.pc = "call" /\ poller'.pc \in {"call", "sleep"}) => offset' = offset]_vars

C12_Witness ==
    /\ offset = 3
    /\ poller.pc = "call"
    /\ poller.since = "failed"
    /\ poller.call.tries > 0

\* C13 (as claimed): between two calls of bot_api('getUpdates') that follow
\* each other there is a time.sleep(.2), whether the earlier call gave updates,
\* gave none, or failed: every call but the first of the thread begins after
\* the sleep.
C13_SleepBetweenFetches ==
    poller.pc = "call" => poller.since \in {"start", "sleep"}

\* What the main thread reads and writes, the list of submitted tasks apart.
DispatchState == <<MSG_Q, pc, d, renderVars, handled>>

\* A step as C14 allows it.
TaskStep ==
    /\ Len(executor') > Len(executor) =>
          /\ Len(executor') = Len(executor) + 1
          /\ SubSeq(executor', 1, Len(executor)) = executor
          /\ executor'[Len(executor')].st = "queued"
          /\ executor'[Len(executor')].call = ApiStart
          /\ pc # "get" /\ pc' = "get"
    /\ DispatchState' # DispatchState =>
          SubSeq(executor', 1, Len(executor)) = executor
    /\ (Len(executor') <= Len(executor) /\ executor' # executor) =>
          UNCHANGED DispatchState
    /\ \A i \in 1..Len(executor) :
          executor[i].st = "done" =>
              i <= Len(executor') /\ executor'[i] = executor[i]

\* C14: the main thread sends nothing itself.  A reply is one task appended to
\* the executor, not yet started, and the thread is back at the queue in the
\* same step; no step of the main thread makes a POST for a task.  A step of a
\* task, the one that ends it with an exception included, leaves the state of
\* the main thread as it is and submits nothing; a task that is over stays as
\* it ended; no update has two tasks; and whatever the tasks do, the main
\* thread can take its next step while it has an update at hand or on the
\* queue.
C14_RepliesOnlyThroughExecutor ==
    /\ [][TaskStep]_vars
    /\ [](\A i, j \in 1..Len(executor) :
             i # j => executor[i].update_id # executor[j].update_id)
    /\ []((pc # "get" \/ MSG_Q # <<>>) => ENABLED Dispatch)

C14_Witness ==
    /\ Len(executor) = 2
    /\ executor[1].outcome = "dropped"
    /\ executor[1].call.exc = "network"
    /\ executor[2].outcome = "delivered"
    /\ Len(handled) = 2

\* C15 (as claimed): once a call of generate_image has returned, whatever it
\* gave, its temporary document is gone and no file is left at a raster path
\* <final path>.png.
C15_NoTemporaryFilesAfterRender ==
    \A k \in 1..Len(renders) :
        renders[k].result \in {"True", "False"} =>
            /\ k = Len(renders) => (pc = "loop" /\ tmpsvg = NoFile)
            /\ ~IsFile(files, PngPath(renders[k].fileid))

\* The registry a reload builds from its listing: the names of the .svg
\* files, in listing order.
NewRegistry ==
    LET svg == SelectSeq(probe.listing, LAMBDA f : f.ext = ".svg")
    IN  [i \in 1..Len(svg) |-> svg[i].name]

\* C16 (as claimed): a thread that reads template_cache while update_templates
\* runs reads the whole registry of before the call or the whole registry the
\* call builds, never an empty or partly filled one.
C16_ReloadIsAtomic ==
    probe.pc = "returned" =>
        \A m \in probe.seen : m = probe.before \/ m = NewRegistry

\* C17 (as claimed): when os.listdir raises in a call of update_templates made
\* after startup, template_cache is the registry of before the call, and is not
\* empty.
C17_FailedReloadKeepsRegistry ==
    probe.pc = "raised" => template_cache = probe.before /\ template_cache # <<>>

\* The first word of a text, and the words that are a command of this bot:
\* /start and /delsvg, bare or addressed to the bot's own name.
LeadingToken(s) == FirstWord(Replace(Strip(s), Nbsp, " "))

Recognized(s) ==
    LeadingToken(s) \in
        {<<"/", "s", "t", "a", "r", "t">>, <<"/", "d", "e", "l", "s", "v", "g">>,
         <<"/", "s", "t", "a", "r", "t", "@">> \o CFGUsername,
         <<"/", "d", "e", "l", "s", "v", "g", "@">> \o CFGUsername}

\* The step that handles the message at hand, as C18 has it.
MessageStep ==
    (pc = "handle" /\ d.kind = "message" /\ pc' = "get") =>
        /\ (d.text # <<>> /\ ~d.document /\ d.chat = "private") =>
              /\ Len(executor') = Len(executor) + 1
              /\ SubSeq(executor', 1, Len(executor)) = executor
              /\ executor'[Len(executor')].fn = "sendmsg"
              /\ executor'[Len(executor')].update_id = d.update_id
              /\ executor'[Len(executor')].text # <<>>
              /\ ~Recognized(d.text) => executor'[Len(executor')].text = HELP
        /\ (d.chat # "private" \/ d.document) => executor' = executor

\* C18: a message with a text that is not empty and no document, in a private
\* chat, gets exactly one sendmsg task, and its text is HELP whenever the first
\* word is not the command start or delsvg; a message in a chat that is not
\* private, or with a document, gets no task.
C18_MessageRouting == [][MessageStep]_vars

C18_Witness ==
    /\ Len(handled) = 2
    /\ Len(executor) = 1
    /\ executor[1].update_id = 2
    /\ executor[1].text = HELP

\* The calls of generate_image that have not returned.
InProgress == {k \in 1..Len(renders) : renders[k].result = "running"}

\* An update is taken from the queue only by the main thread at MSG_Q.get(),
\* with no render begun and no child alive.
TakeStep ==
    (d' # d /\ d' # NoUpdate) =>
        /\ pc = "get" /\ d = NoUpdate
        /\ d' = Head(MSG_Q)
        /\ running = 0 /\ renders = <<>> /\ idx = 0

\* C19: renders run one after the other on the main thread.  At most one
\* child process is alive, and it is the one generate_image waits for; at most
\* one call of generate_image is under way, so no two for the same file id;
\* no update is taken from the queue while a render is in progress; and
\* inkscape_executor is never given a task.
C19_RendersAreSerialized ==
    /\ [](/\ running <= 1
          /\ running = 1 <=> proc.state = "running"
          /\ Cardinality(InProgress) <= 1
          /\ InProgress # {} => InProgress = {Len(renders)}
          /\ inkscape_executor = <<>>)
    /\ [][TakeStep]_vars

C19_Witness ==
    /\ running = 1
    /\ proc.cmd = "convert"
    /\ MSG_Q # <<>>
    /\ Len(renders) = 2
    /\ renders[1].result = "True"

\* Where the updates of the batches fetched so far are: handled, at hand, on
\* the queue, or still to be put by getupdates.
Whereabouts ==
    Begun \o UpdateIds(MSG_Q) \o UpdateIds(poller.updates)

====
